---- MODULE Spec2Model ----
(***************************************************************************)
(* Devices API: the Device entity and its validation (internal/domain),    *)
(* the error taxonomy, the PostgreSQL repository and the DeviceService     *)
(* that orchestrates load -> guard -> validate -> persist.                 *)
(*                                                                         *)
(* Strings are sequences of one-character strings, so that                 *)
(* strings.TrimSpace and len() are computed, not assumed.  An error is the *)
(* chain of its layers, outermost first (fmt.Errorf("%w") prepends a       *)
(* layer); nil is the empty chain.  A pointer is a sequence of length 0    *)
(* (nil) or 1.                                                             *)
(***************************************************************************)
EXTENDS Integers, Sequences, FiniteSets, TLC

VARIABLES
    devices,    \* the rows of the devices table
    issued,     \* the identifiers uuid.New() has handed out to stored devices
    clock,      \* the next reading of time.Now()
    last,       \* the service call just made and its outcome
    probe,      \* a Device value under validation, outside the service
    pending     \* the calls in flight when clients call concurrently

vars == <<devices, issued, clock, last, probe, pending>>

----------------------------------------------------------------------------
(* Bounds of the model *)

\* number of distinct identifiers uuid.New() can hand out in one behaviour
NumIds == 2

Ids == 1..NumIds

\* how many clock readings fall within one microsecond, the precision of a
\* TIMESTAMP WITH TIME ZONE column
TicksPerMicro == 2

----------------------------------------------------------------------------
(* Strings *)

Rep(c, n) == [i \in 1..n |-> c]

\* unicode.IsSpace restricted to the characters the model uses
WhiteSpace == {" ", "\t"}

\* strings.TrimSpace: drop the leading and the trailing white space
TrimSpace(s) ==
    IF \A i \in 1..Len(s) : s[i] \in WhiteSpace THEN << >>
    ELSE LET first == CHOOSE i \in 1..Len(s) :
                          s[i] \notin WhiteSpace /\ \A j \in 1..(i - 1) : s[j] \in WhiteSpace
             last1 == CHOOSE i \in 1..Len(s) :
                          s[i] \notin WhiteSpace /\ \A j \in (i + 1)..Len(s) : s[j] \in WhiteSpace
         IN  SubSeq(s, first, last1)

----------------------------------------------------------------------------
(* internal/domain: errors *)

NoError == << >>

ErrDeviceNotFound ==
    << [type |-> "errorString", field |-> "", msg |-> "device not found"] >>

ErrDeviceAlreadyExists ==
    << [type |-> "errorString", field |-> "", msg |-> "device already exists"] >>

NewValidationError(field, message) ==
    << [type |-> "ValidationError", field |-> field, msg |-> message] >>

NewBusinessRuleError(message) ==
    << [type |-> "BusinessRuleError", field |-> "", msg |-> message] >>

\* an error of the pgx driver: connection failure, constraint violation
PgError(message) ==
    << [type |-> "PgError", field |-> "", msg |-> message] >>

\* fmt.Errorf(context + ": %v", err): the cause is flattened into the text
WrapfLossy(context, err) ==
    << [type |-> "wrapError", field |-> "", msg |-> context] >>

\* fmt.Errorf(context + ": %w", err)
Wrapf(context, err) ==
    << [type |-> "wrapError", field |-> "", msg |-> context] >> \o err

IsValidationError(err) ==
    \E i \in 1..Len(err) : err[i].type = "ValidationError"

IsBusinessRuleError(err) ==
    \E i \in 1..Len(err) : err[i].type = "BusinessRuleError"

IsNotFoundError(err) ==
    \E i \in 1..Len(err) : err[i] = ErrDeviceNotFound[1]

IsAlreadyExistsError(err) ==
    \E i \in 1..Len(err) : err[i] = ErrDeviceAlreadyExists[1]

\* the field of the first ValidationError in the chain (errors.As)
ValidationField(err) ==
    IF ~\E i \in 1..Len(err) : err[i].type = "ValidationError" THEN ""
    ELSE err[CHOOSE i \in 1..Len(err) :
                 /\ err[i].type = "ValidationError"
                 /\ \A j \in 1..(i - 1) : err[j].type # "ValidationError"].field

----------------------------------------------------------------------------
(* internal/domain: Device *)

DeviceStateActive == "active"

DeviceStateInUse == "in-use"

DeviceStateInactive == "inactive"

NilUUID == 0

ZeroTime == 0

MinNameLen == 3

MaxNameLen == 100

MinBrandLen == 2

MaxBrandLen == 50

Device(id, name, brand, createdAt, state) ==
    [ID |-> id, Name |-> name, Brand |-> brand, CreatedAt |-> createdAt, State |-> state]

ValidateName(d) ==
    LET name == TrimSpace(d.Name)
    IN  IF name = << >> THEN NewValidationError("name", "cannot be empty")
        ELSE IF Len(name) < MinNameLen
             THEN NewValidationError("name", "must be at least 3 characters")
        ELSE IF Len(name) > MaxNameLen
             THEN NewValidationError("name", "must not exceed 100 characters")
        ELSE NoError

ValidateBrand(d) ==
    LET brand == TrimSpace(d.Brand)
    IN  IF brand = << >> THEN NewValidationError("brand", "cannot be empty")
        ELSE IF Len(brand) < MinBrandLen
             THEN NewValidationError("brand", "must be at least 2 characters")
        ELSE IF Len(brand) > MaxBrandLen
             THEN NewValidationError("brand", "must not exceed 50 characters")
        ELSE NoError

ValidateState(d) ==
    IF d.State \in {DeviceStateActive, DeviceStateInUse, DeviceStateInactive}
    THEN NoError
    ELSE NewValidationError("state", "invalid state")

\* Validate without the brand check
ValidateSkipsBrand(d) ==
    IF d.ID = NilUUID THEN NewValidationError("id", "cannot be empty")
    ELSE IF ValidateName(d) # NoError THEN ValidateName(d)
    ELSE IF d.CreatedAt = ZeroTime THEN NewValidationError("created_at", "cannot be empty")
    ELSE IF ValidateState(d) # NoError THEN ValidateState(d)
    ELSE NoError

\* Validate with the state check moved before the created_at check
ValidateStateBeforeCreatedAt(d) ==
    IF d.ID = NilUUID THEN NewValidationError("id", "cannot be empty")
    ELSE IF ValidateName(d) # NoError THEN ValidateName(d)
    ELSE IF ValidateBrand(d) # NoError THEN ValidateBrand(d)
    ELSE IF ValidateState(d) # NoError THEN ValidateState(d)
    ELSE IF d.CreatedAt = ZeroTime THEN NewValidationError("created_at", "cannot be empty")
    ELSE NoError

Validate(d) ==
    IF d.ID = NilUUID THEN NewValidationError("id", "cannot be empty")
    ELSE IF ValidateName(d) # NoError THEN ValidateName(d)
    ELSE IF ValidateBrand(d) # NoError THEN ValidateBrand(d)
    ELSE IF d.CreatedAt = ZeroTime THEN NewValidationError("created_at", "cannot be empty")
    ELSE IF ValidateState(d) # NoError THEN ValidateState(d)
    ELSE NoError

\* NewDevice with the wrong initial state
NewDeviceInactive(id, now, name, brand) ==
    LET device == Device(id, name, brand, now, DeviceStateInactive)
        err == Validate(device)
    IN  IF err # NoError THEN [device |-> << >>, err |-> err]
        ELSE [device |-> <<device>>, err |-> NoError]

\* NewDevice: [device |-> pointer, err |-> error]
NewDevice(id, now, name, brand) ==
    LET device == Device(id, name, brand, now, DeviceStateActive)
        err == Validate(device)
    IN  IF err # NoError THEN [device |-> << >>, err |-> err]
        ELSE [device |-> <<device>>, err |-> NoError]

\* CanUpdate with the in-use test left out
CanUpdateNever(d) == NoError

\* CanUpdate that lets only active devices through
CanUpdateOnlyActive(d) ==
    IF d.State # DeviceStateActive
    THEN NewBusinessRuleError("cannot update device in 'in-use' state")
    ELSE NoError

CanUpdate(d) ==
    IF d.State = DeviceStateInUse
    THEN NewBusinessRuleError("cannot update device in 'in-use' state")
    ELSE NoError

\* CanDelete that tests for the inactive state instead of in-use
CanDeleteRefusesInactive(d) ==
    IF d.State = DeviceStateInactive
    THEN NewBusinessRuleError("cannot delete device in 'in-use' state")
    ELSE NoError

\* CanDelete with the in-use test left out
CanDeleteNever(d) == NoError

CanDelete(d) ==
    IF d.State = DeviceStateInUse
    THEN NewBusinessRuleError("cannot delete device in 'in-use' state")
    ELSE NoError

\* Device.Update without the call of CanUpdate
DeviceUpdateNoGuard(d, name, brand, state) ==
    LET temp == Device(d.ID, name, brand, d.CreatedAt, state)
        verr == Validate(temp)
    IN  IF verr # NoError THEN [device |-> d, err |-> verr]
        ELSE [device |-> [d EXCEPT !.Name = name, !.Brand = brand, !.State = state],
              err |-> NoError]

\* Device.Update with the guard applied to the requested state as well
DeviceUpdateGuardsNewState(d, name, brand, state) ==
    LET guard == CanUpdate(d)
        temp == Device(d.ID, name, brand, d.CreatedAt, state)
        verr == Validate(temp)
    IN  IF guard # NoError THEN [device |-> d, err |-> guard]
        ELSE IF CanUpdate(temp) # NoError THEN [device |-> d, err |-> CanUpdate(temp)]
        ELSE IF verr # NoError THEN [device |-> d, err |-> verr]
        ELSE [device |-> [d EXCEPT !.Name = name, !.Brand = brand, !.State = state],
              err |-> NoError]

\* Device.Update that validates the requested fields before the guard
DeviceUpdateValidatesFirst(d, name, brand, state) ==
    LET guard == CanUpdate(d)
        temp == Device(d.ID, name, brand, d.CreatedAt, state)
        verr == Validate(temp)
    IN  IF verr # NoError THEN [device |-> d, err |-> verr]
        ELSE IF guard # NoError THEN [device |-> d, err |-> guard]
        ELSE [device |-> [d EXCEPT !.Name = name, !.Brand = brand, !.State = state],
              err |-> NoError]

\* Device.Update: [device |-> the receiver afterwards, err |-> error]
DeviceUpdate(d, name, brand, state) ==
    LET guard == CanUpdate(d)
        temp == Device(d.ID, name, brand, d.CreatedAt, state)
        verr == Validate(temp)
    IN  IF guard # NoError THEN [device |-> d, err |-> guard]
        ELSE IF verr # NoError THEN [device |-> d, err |-> verr]
        ELSE [device |-> [d EXCEPT !.Name = name, !.Brand = brand, !.State = state],
              err |-> NoError]

\* Device.SetState assigns first and validates afterwards
SetState(d, state) ==
    LET d2 == [d EXCEPT !.State = state]
    IN  [device |-> d2, err |-> ValidateState(d2)]

----------------------------------------------------------------------------
(* migrations/000001_create_devices_table.up.sql: the devices table *)

NameColumnLen == 100

BrandColumnLen == 50

\* VARCHAR(n): a longer value is an error unless the excess is all spaces,
\* in which case the value is truncated to n characters
VarcharFits(s, n) ==
    Len(s) <= n \/ \A i \in (n + 1)..Len(s) : s[i] = " "

VarcharStore(s, n) ==
    IF Len(s) <= n THEN s ELSE SubSeq(s, 1, n)

\* TIMESTAMP WITH TIME ZONE keeps microseconds
PgTimestamp(t) == (t \div TicksPerMicro) * TicksPerMicro

StateCheck(state) ==
    state \in {DeviceStateActive, DeviceStateInUse, DeviceStateInactive}

\* the constraints a row must satisfy to be written (column types and CHECK)
RowAccepted(d) ==
    /\ VarcharFits(d.Name, NameColumnLen)
    /\ VarcharFits(d.Brand, BrandColumnLen)
    /\ StateCheck(d.State)

RowsById(tbl, id) == {r \in tbl : r.ID = id}

----------------------------------------------------------------------------
(* internal/repository: PostgresDeviceRepository.                          *)
(* tbl is the table (a set of rows); fault says the driver call fails for  *)
(* a reason of its own (connection lost, context deadline).                *)

\* Create that reports every failure as a collision of identifiers
RepoCreateAlwaysExists(tbl, device, fault) ==
    IF fault \/ ~RowAccepted(device) \/ RowsById(tbl, device.ID) # {}
    THEN [err |-> Wrapf("failed to create device", ErrDeviceAlreadyExists), tbl |-> tbl]
    ELSE [err |-> NoError,
          tbl |-> tbl \cup {Device(device.ID,
                                   VarcharStore(device.Name, NameColumnLen),
                                   VarcharStore(device.Brand, BrandColumnLen),
                                   PgTimestamp(device.CreatedAt),
                                   device.State)}]

\* Create that stores the name and the brand trimmed
RepoCreateTrims(tbl, device, fault) ==
    IF fault \/ ~RowAccepted(device) \/ RowsById(tbl, device.ID) # {}
    THEN [err |-> Wrapf("failed to create device", PgError("exec failed")), tbl |-> tbl]
    ELSE [err |-> NoError,
          tbl |-> tbl \cup {Device(device.ID,
                                   VarcharStore(TrimSpace(device.Name), NameColumnLen),
                                   VarcharStore(TrimSpace(device.Brand), BrandColumnLen),
                                   PgTimestamp(device.CreatedAt),
                                   device.State)}]

RepoCreate(tbl, device, fault) ==
    IF fault \/ ~RowAccepted(device) \/ RowsById(tbl, device.ID) # {}
    THEN [err |-> Wrapf("failed to create device", PgError("exec failed")), tbl |-> tbl]
    ELSE [err |-> NoError,
          tbl |-> tbl \cup {Device(device.ID,
                                   VarcharStore(device.Name, NameColumnLen),
                                   VarcharStore(device.Brand, BrandColumnLen),
                                   PgTimestamp(device.CreatedAt),
                                   device.State)}]

\* GetByID without the pgx.ErrNoRows case
RepoGetByIDUnmapped(tbl, id, fault) ==
    IF fault \/ RowsById(tbl, id) = {}
    THEN [device |-> << >>, err |-> Wrapf("failed to get device", PgError("query failed"))]
    ELSE [device |-> << CHOOSE r \in RowsById(tbl, id) : TRUE >>, err |-> NoError]

RepoGetByID(tbl, id, fault) ==
    IF fault
    THEN [device |-> << >>, err |-> Wrapf("failed to get device", PgError("query failed"))]
    ELSE IF RowsById(tbl, id) = {}
    THEN [device |-> << >>, err |-> ErrDeviceNotFound]
    ELSE [device |-> << CHOOSE r \in RowsById(tbl, id) : TRUE >>, err |-> NoError]

\* Update whose SET clause leaves the state out
RepoUpdateWithoutState(tbl, device, fault) ==
    IF fault \/ (RowsById(tbl, device.ID) # {} /\ ~RowAccepted(device))
    THEN [err |-> Wrapf("failed to update device", PgError("exec failed")), tbl |-> tbl]
    ELSE IF RowsById(tbl, device.ID) = {}
    THEN [err |-> ErrDeviceNotFound, tbl |-> tbl]
    ELSE [err |-> NoError,
          tbl |-> {IF r.ID = device.ID
                   THEN [r EXCEPT !.Name = VarcharStore(device.Name, NameColumnLen),
                                  !.Brand = VarcharStore(device.Brand, BrandColumnLen)]
                   ELSE r : r \in tbl}]

\* Update that inserts the row when no row has the id
RepoUpdateUpserts(tbl, device, fault) ==
    IF fault \/ ~RowAccepted(device)
    THEN [err |-> Wrapf("failed to update device", PgError("exec failed")), tbl |-> tbl]
    ELSE [err |-> NoError,
          tbl |-> {r \in tbl : r.ID # device.ID} \cup
                  {[device EXCEPT !.Name = VarcharStore(device.Name, NameColumnLen),
                                  !.Brand = VarcharStore(device.Brand, BrandColumnLen),
                                  !.CreatedAt = PgTimestamp(device.CreatedAt)]}]

\* Update with the name and the brand bound to each other's column
RepoUpdateSwapsNameAndBrand(tbl, device, fault) ==
    IF fault \/ (RowsById(tbl, device.ID) # {} /\ ~RowAccepted(device))
    THEN [err |-> Wrapf("failed to update device", PgError("exec failed")), tbl |-> tbl]
    ELSE IF RowsById(tbl, device.ID) = {}
    THEN [err |-> ErrDeviceNotFound, tbl |-> tbl]
    ELSE [err |-> NoError,
          tbl |-> {IF r.ID = device.ID
                   THEN [r EXCEPT !.Name = VarcharStore(device.Brand, NameColumnLen),
                                  !.Brand = VarcharStore(device.Name, BrandColumnLen),
                                  !.State = device.State]
                   ELSE r : r \in tbl}]

\* Update that also sets created_at, to the zero time
RepoUpdateResetsCreatedAt(tbl, device, fault) ==
    IF fault \/ (RowsById(tbl, device.ID) # {} /\ ~RowAccepted(device))
    THEN [err |-> Wrapf("failed to update device", PgError("exec failed")), tbl |-> tbl]
    ELSE IF RowsById(tbl, device.ID) = {}
    THEN [err |-> ErrDeviceNotFound, tbl |-> tbl]
    ELSE [err |-> NoError,
          tbl |-> {IF r.ID = device.ID
                   THEN [r EXCEPT !.Name = VarcharStore(device.Name, NameColumnLen),
                                  !.Brand = VarcharStore(device.Brand, BrandColumnLen),
                                  !.State = device.State,
                                  !.CreatedAt = ZeroTime]
                   ELSE r : r \in tbl}]

RepoUpdate(tbl, device, fault) ==
    IF fault \/ (RowsById(tbl, device.ID) # {} /\ ~RowAccepted(device))
    THEN [err |-> Wrapf("failed to update device", PgError("exec failed")), tbl |-> tbl]
    ELSE IF RowsById(tbl, device.ID) = {}
    THEN [err |-> ErrDeviceNotFound, tbl |-> tbl]
    ELSE [err |-> NoError,
          tbl |-> {IF r.ID = device.ID
                   THEN [r EXCEPT !.Name = VarcharStore(device.Name, NameColumnLen),
                                  !.Brand = VarcharStore(device.Brand, BrandColumnLen),
                                  !.State = device.State]
                   ELSE r : r \in tbl}]

\* Delete without the WHERE clause
RepoDeleteAll(tbl, id, fault) ==
    IF fault
    THEN [err |-> Wrapf("failed to delete device", PgError("exec failed")), tbl |-> tbl]
    ELSE IF RowsById(tbl, id) = {}
    THEN [err |-> ErrDeviceNotFound, tbl |-> tbl]
    ELSE [err |-> NoError, tbl |-> {}]

RepoDelete(tbl, id, fault) ==
    IF fault
    THEN [err |-> Wrapf("failed to delete device", PgError("exec failed")), tbl |-> tbl]
    ELSE IF RowsById(tbl, id) = {}
    THEN [err |-> ErrDeviceNotFound, tbl |-> tbl]
    ELSE [err |-> NoError, tbl |-> tbl \ RowsById(tbl, id)]

RepoExistsByID(tbl, id) == RowsById(tbl, id) # {}

\* The list queries read the table through a scan: the rows of the table in
\* the order the executor meets them, which the table does not fix.
Scans(tbl) ==
    {s \in [1..Cardinality(tbl) -> tbl] : \A i, j \in DOMAIN s : s[i] = s[j] => i = j}

\* ORDER BY created_at DESC: r is placed behind the rows that are not older;
\* rows of one created_at come out in the order the scan met them
InsertByCreatedAtDesc(sorted, r) ==
    LET k == Cardinality({i \in DOMAIN sorted : sorted[i].CreatedAt >= r.CreatedAt})
    IN  SubSeq(sorted, 1, k) \o <<r>> \o SubSeq(sorted, k + 1, Len(sorted))

RECURSIVE OrderByCreatedAtDesc(_)
OrderByCreatedAtDesc(rows) ==
    IF rows = << >>
    THEN << >>
    ELSE InsertByCreatedAtDesc(OrderByCreatedAtDesc(SubSeq(rows, 1, Len(rows) - 1)),
                               rows[Len(rows)])

\* LIMIT limit OFFSET offset
LimitOffset(rows, limit, offset) ==
    SubSeq(rows, offset + 1, IF offset + limit < Len(rows) THEN offset + limit ELSE Len(rows))

\* the rows of a list query; a negative LIMIT or OFFSET is an error of the query
ListResult(rows, limit, offset, fault, context) ==
    IF fault \/ limit < 0 \/ offset < 0
    THEN [devices |-> << >>, err |-> Wrapf(context, PgError("query failed"))]
    ELSE [devices |-> LimitOffset(OrderByCreatedAtDesc(rows), limit, offset), err |-> NoError]

RepoList(scan, limit, offset, fault) ==
    ListResult(scan, limit, offset, fault, "failed to list devices")

\* ListByBrand without the WHERE clause
RepoListByBrandUnfiltered(scan, brand, limit, offset, fault) ==
    ListResult(scan, limit, offset, fault, "failed to list devices by brand")

RepoListByBrand(scan, brand, limit, offset, fault) ==
    LET Match(r) == r.Brand = brand
    IN  ListResult(SelectSeq(scan, Match), limit, offset, fault,
                   "failed to list devices by brand")

RepoListByState(scan, state, limit, offset, fault) ==
    LET Match(r) == r.State = state
    IN  ListResult(SelectSeq(scan, Match), limit, offset, fault,
                   "failed to list devices by state")

----------------------------------------------------------------------------
(* internal/service: DeviceService.                                        *)
(* Every operation yields [device, err, tbl, calls, storeOk]: the returned *)
(* pointer and error, the table afterwards, the repository calls made in   *)
(* order, and whether the store answered every one of them without a       *)
(* driver error.  fault is "none", "read" (GetByID fails) or "write".      *)

Outcome(device, err, tbl, calls, storeOk) ==
    [device |-> device, err |-> err, tbl |-> tbl, calls |-> calls, storeOk |-> storeOk]

CreateDevice(tbl, id, now, name, brand, fault) ==
    LET new == NewDevice(id, now, name, brand)
        res == RepoCreate(tbl, new.device[1], fault = "write")
    IN  IF new.err # NoError
        THEN Outcome(<< >>, Wrapf("failed to create device", new.err), tbl, << >>, TRUE)
        ELSE IF res.err # NoError
        THEN Outcome(<< >>, Wrapf("failed to save device", res.err), tbl, <<"Create">>, FALSE)
        ELSE Outcome(new.device, NoError, res.tbl, <<"Create">>, TRUE)

GetDevice(tbl, id, fault) ==
    LET got == RepoGetByID(tbl, id, fault = "read")
    IN  IF got.err # NoError
        THEN Outcome(<< >>, got.err, tbl, <<"GetByID">>, fault # "read")
        ELSE Outcome(got.device, NoError, tbl, <<"GetByID">>, TRUE)

UpdateDevice(tbl, id, name, brand, state, fault) ==
    LET got == RepoGetByID(tbl, id, fault = "read")
        upd == DeviceUpdate(got.device[1], name, brand, state)
        res == RepoUpdate(tbl, upd.device, fault = "write")
    IN  IF got.err # NoError
        THEN Outcome(<< >>, got.err, tbl, <<"GetByID">>, fault # "read")
        ELSE IF upd.err # NoError
        THEN Outcome(<< >>, upd.err, tbl, <<"GetByID">>, TRUE)
        ELSE IF res.err # NoError
        THEN Outcome(<< >>, Wrapf("failed to update device", res.err), tbl,
                     <<"GetByID", "Update">>, FALSE)
        ELSE Outcome(<<upd.device>>, NoError, res.tbl, <<"GetByID", "Update">>, TRUE)

\* the loaded entity with each provided field overwritten
Merge(d, name, brand, state) ==
    [d EXCEPT !.Name = IF name # << >> THEN name[1] ELSE @,
              !.Brand = IF brand # << >> THEN brand[1] ELSE @,
              !.State = IF state # << >> THEN state[1] ELSE @]

PartialUpdateDevice(tbl, id, name, brand, state, fault) ==
    LET got == RepoGetByID(tbl, id, fault = "read")
        guard == CanUpdate(got.device[1])
        merged == Merge(got.device[1], name, brand, state)
        verr == Validate(merged)
        res == RepoUpdate(tbl, merged, fault = "write")
    IN  IF got.err # NoError
        THEN Outcome(<< >>, got.err, tbl, <<"GetByID">>, fault # "read")
        ELSE IF guard # NoError
        THEN Outcome(<< >>, guard, tbl, <<"GetByID">>, TRUE)
        ELSE IF verr # NoError
        THEN Outcome(<< >>, verr, tbl, <<"GetByID">>, TRUE)
        ELSE IF res.err # NoError
        THEN Outcome(<< >>, Wrapf("failed to update device", res.err), tbl,
                     <<"GetByID", "Update">>, FALSE)
        ELSE Outcome(<<merged>>, NoError, res.tbl, <<"GetByID", "Update">>, TRUE)

DeleteDevice(tbl, id, fault) ==
    LET got == RepoGetByID(tbl, id, fault = "read")
        guard == CanDelete(got.device[1])
        res == RepoDelete(tbl, id, fault = "write")
    IN  IF got.err # NoError
        THEN Outcome(<< >>, got.err, tbl, <<"GetByID">>, fault # "read")
        ELSE IF guard # NoError
        THEN Outcome(<< >>, guard, tbl, <<"GetByID">>, TRUE)
        ELSE IF res.err # NoError
        THEN Outcome(<< >>, Wrapf("failed to delete device", res.err), tbl,
                     <<"GetByID", "Delete">>, FALSE)
        ELSE Outcome(<< >>, NoError, res.tbl, <<"GetByID", "Delete">>, TRUE)

\* The list operations yield [devices, err, query, storeOk]: the returned
\* slice and error, the queries put to the repository (each with the limit
\* and offset it was given), and whether the store answered them.

DefaultLimit == 10

ListOutcome(list, err, query, storeOk) ==
    [devices |-> list, err |-> err, query |-> query, storeOk |-> storeOk]

Query(fn, limit, offset) == [fn |-> fn, limit |-> limit, offset |-> offset]

\* ListDevices passing the limit on as it came
ListDevicesNoDefault(scan, limit, offset, fault) ==
    LET off == IF offset < 0 THEN 0 ELSE offset
        res == RepoList(scan, limit, off, fault = "read")
    IN  IF res.err # NoError
        THEN ListOutcome(<< >>, Wrapf("failed to list devices", res.err),
                         <<Query("List", limit, off)>>, FALSE)
        ELSE ListOutcome(res.devices, NoError, <<Query("List", limit, off)>>, TRUE)

ListDevices(scan, limit, offset, fault) ==
    LET lim == IF limit <= 0 THEN DefaultLimit ELSE limit
        off == IF offset < 0 THEN 0 ELSE offset
        res == RepoList(scan, lim, off, fault = "read")
    IN  IF res.err # NoError
        THEN ListOutcome(<< >>, Wrapf("failed to list devices", res.err),
                         <<Query("List", lim, off)>>, FALSE)
        ELSE ListOutcome(res.devices, NoError, <<Query("List", lim, off)>>, TRUE)

\* ListDevicesByBrand without the check of the brand
ListDevicesByBrandUnchecked(scan, brand, limit, offset, fault) ==
    LET lim == IF limit <= 0 THEN DefaultLimit ELSE limit
        off == IF offset < 0 THEN 0 ELSE offset
        res == RepoListByBrand(scan, brand, lim, off, fault = "read")
    IN  IF res.err # NoError
        THEN ListOutcome(<< >>, Wrapf("failed to list devices by brand", res.err),
                         <<Query("ListByBrand", lim, off)>>, FALSE)
        ELSE ListOutcome(res.devices, NoError, <<Query("ListByBrand", lim, off)>>, TRUE)

ListDevicesByBrand(scan, brand, limit, offset, fault) ==
    LET lim == IF limit <= 0 THEN DefaultLimit ELSE limit
        off == IF offset < 0 THEN 0 ELSE offset
        res == RepoListByBrand(scan, brand, lim, off, fault = "read")
    IN  IF brand = << >>
        THEN ListOutcome(<< >>, NewValidationError("brand", "cannot be empty"), << >>, TRUE)
        ELSE IF res.err # NoError
        THEN ListOutcome(<< >>, Wrapf("failed to list devices by brand", res.err),
                         <<Query("ListByBrand", lim, off)>>, FALSE)
        ELSE ListOutcome(res.devices, NoError, <<Query("ListByBrand", lim, off)>>, TRUE)

\* the state is checked on a device made up for the purpose
ListDevicesByState(scan, state, limit, offset, fault) ==
    LET tempDevice == Device(NilUUID, <<"t", "e", "m", "p">>, <<"t", "e", "m", "p">>,
                             ZeroTime, state)
        verr == ValidateState(tempDevice)
        lim == IF limit <= 0 THEN DefaultLimit ELSE limit
        off == IF offset < 0 THEN 0 ELSE offset
        res == RepoListByState(scan, state, lim, off, fault = "read")
    IN  IF verr # NoError
        THEN ListOutcome(<< >>, verr, << >>, TRUE)
        ELSE IF res.err # NoError
        THEN ListOutcome(<< >>, Wrapf("failed to list devices by state", res.err),
                         <<Query("ListByState", lim, off)>>, FALSE)
        ELSE ListOutcome(res.devices, NoError, <<Query("ListByState", lim, off)>>, TRUE)

----------------------------------------------------------------------------
(* internal/handler/http: what DeviceHandler answers to a service outcome. *)
(* A response is [status, error, field]: the status code and the error and *)
(* field members of the body.                                              *)

StatusOK == 200

StatusCreated == 201

StatusNoContent == 204

StatusBadRequest == 400

StatusNotFound == 404

StatusUnprocessableEntity == 422

StatusInternalServerError == 500

HttpResponse(status, error, field) == [status |-> status, error |-> error, field |-> field]

\* handleError without the case of the business rule
HandleErrorNoBusinessRule(err) ==
    IF IsNotFoundError(err)
    THEN HttpResponse(StatusNotFound, "not_found", "")
    ELSE IF IsValidationError(err)
    THEN HttpResponse(StatusBadRequest, "validation_error", ValidationField(err))
    ELSE HttpResponse(StatusInternalServerError, "internal_error", "")

HandleError(err) ==
    IF IsNotFoundError(err)
    THEN HttpResponse(StatusNotFound, "not_found", "")
    ELSE IF IsValidationError(err)
    THEN HttpResponse(StatusBadRequest, "validation_error", ValidationField(err))
    ELSE IF IsBusinessRuleError(err)
    THEN HttpResponse(StatusUnprocessableEntity, "business_rule_violation", "")
    ELSE HttpResponse(StatusInternalServerError, "internal_error", "")

\* the answer of the handler of op to the error the service returned
Answer(op, err) ==
    IF err # NoError THEN HandleError(err)
    ELSE IF op = "Create" THEN HttpResponse(StatusCreated, "", "")
    ELSE IF op = "Delete" THEN HttpResponse(StatusNoContent, "", "")
    ELSE HttpResponse(StatusOK, "", "")

\* the decimal digits, the digit of value i at place i + 1
DecimalDigits == <<"0", "1", "2", "3", "4", "5", "6", "7", "8", "9">>

IsDigit(c) == \E i \in 1..Len(DecimalDigits) : DecimalDigits[i] = c

DigitValue(c) == (CHOOSE i \in 1..Len(DecimalDigits) : DecimalDigits[i] = c) - 1

RECURSIVE Decimal(_)
\* the number a sequence of digits writes
Decimal(ds) ==
    IF ds = << >> THEN 0
    ELSE Decimal(SubSeq(ds, 1, Len(ds) - 1)) * 10 + DigitValue(ds[Len(ds)])

RECURSIVE SkipSpace(_)
\* s without its leading spaces
SkipSpace(s) ==
    IF s # << >> /\ s[1] \in WhiteSpace THEN SkipSpace(Tail(s)) ELSE s

\* s without its sign, if it has one
AcceptSign(s) ==
    IF s # << >> /\ s[1] \in {"+", "-"} THEN Tail(s) ELSE s

RECURSIVE ScanNumber(_)
\* the digits s begins with
ScanNumber(s) ==
    IF s # << >> /\ IsDigit(s[1]) THEN <<s[1]>> \o ScanNumber(Tail(s)) ELSE << >>

\* fmt.Sscanf(s, "%d", &i): spaces are skipped, a sign is taken, then the
\* digits up to the first character that is none; what follows is left
\* unread; no digit is an error
Sscanf(s) ==
    LET tok == ScanNumber(AcceptSign(SkipSpace(s)))
    IN  IF tok = << >> THEN [i |-> 0, ok |-> FALSE]
        ELSE IF SkipSpace(s)[1] = "-" THEN [i |-> 0 - Decimal(tok), ok |-> TRUE]
        ELSE [i |-> Decimal(tok), ok |-> TRUE]

\* parsePositiveInt: [i |-> the number, ok |-> no error]
ParsePositiveInt(s) ==
    LET scanned == Sscanf(s)
    IN  IF ~scanned.ok THEN [i |-> 0, ok |-> FALSE]
        ELSE IF scanned.i < 0 THEN [i |-> 0, ok |-> FALSE]
        ELSE scanned

\* the value of a query parameter, or the default when the parameter is
\* absent or does not parse
QueryInt(s, default) ==
    IF s # << >> /\ ParsePositiveInt(s).ok THEN ParsePositiveInt(s).i ELSE default

ListDevicesResponse(status, total, limit, offset) ==
    [status |-> status, total |-> total, limit |-> limit, offset |-> offset]

\* DeviceHandler.ListDevices on the query parameters limit, offset, brand and
\* state: [out |-> the outcome of the service, resp |-> the response]
HandlerListDevices(scan, l, o, brand, stateStr, fault) ==
    LET limit == QueryInt(l, 10)
        offset == QueryInt(o, 0)
        out == IF brand # << >> THEN ListDevicesByBrand(scan, brand, limit, offset, fault)
               ELSE IF stateStr # "" THEN ListDevicesByState(scan, stateStr, limit, offset, fault)
               ELSE ListDevices(scan, limit, offset, fault)
    IN  [out |-> out,
         resp |-> IF out.err # NoError THEN HandleError(out.err)
                  ELSE ListDevicesResponse(StatusOK, Len(out.devices), limit, offset)]

----------------------------------------------------------------------------
(* Inputs of the service calls *)

NameInputs ==
    { <<"a", "b">>,
      <<"a", "b", "c">>,
      <<" ", "a", "b", "c", "d">> }

BrandInputs ==
    { <<"a">>,
      <<"a", "b">>,
      <<"x", "y", "z", " ">> }

StateInputs == {DeviceStateActive, DeviceStateInUse, DeviceStateInactive, "bogus"}

Faults == {"none", "read", "write"}

\* an optional argument: nil or a pointer to a value of S
Opt(S) == {<< >>} \cup {<<x>> : x \in S}

----------------------------------------------------------------------------
(* The service called by one client at a time.  last records the call just *)
(* made: its arguments (as pointers, nil when the call has no such         *)
(* argument), the table before the call, its outcome, and the response the *)
(* handler makes of that outcome.                                          *)

Record(op, id, name, brand, state, tbl, out) ==
    [op |-> op, id |-> id, name |-> name, brand |-> brand, state |-> state,
     pre |-> tbl, err |-> out.err, ret |-> out.device,
     calls |-> out.calls, storeOk |-> out.storeOk, resp |-> Answer(op, out.err)]

\* the row of id as a pointer
RowPtr(tbl, id) ==
    IF RowsById(tbl, id) = {} THEN << >> ELSE << CHOOSE r \in RowsById(tbl, id) : TRUE >>

\* no Device value is under validation
NoProbe == [device |-> Device(NilUUID, << >>, << >>, ZeroTime, ""), err |-> NoError, done |-> TRUE]

\* no call is outstanding
Idle ==
    [op |-> "idle", id |-> NilUUID, name |-> << >>, brand |-> << >>,
     state |-> << >>, pre |-> {}, err |-> NoError, ret |-> << >>,
     calls |-> << >>, storeOk |-> TRUE, resp |-> HttpResponse(0, "", "")]

\* the clients whose calls may be in flight together
Clients == {"c1", "c2"}

\* the client has no call in flight
Free ==
    [pc |-> "free", op |-> "", id |-> NilUUID, name |-> << >>, brand |-> << >>,
     state |-> << >>, snap |-> << >>, cand |-> << >>, row |-> << >>,
     err |-> NoError, ret |-> << >>, applied |-> FALSE]

NoPending == [c \in Clients |-> Free]

Init ==
    /\ devices = {}
    /\ issued = {}
    /\ clock = TicksPerMicro
    /\ last = Idle
    /\ probe = NoProbe
    /\ pending = NoPending

\* uuid.New(): an identifier never handed out before; identifiers are
\* interchangeable, so the least unused one stands for it
NewUUID(used) == CHOOSE id \in Ids \ used : \A other \in Ids \ used : id <= other

CreateOf(names, brands) ==
    /\ last = Idle
    /\ Ids \ issued # {}
    /\ \E name \in names, brand \in brands, fault \in {"none", "write"} :
        LET id == NewUUID(issued)
            out == CreateDevice(devices, id, clock, name, brand, fault)
        IN  /\ devices' = out.tbl
            /\ issued' = IF out.err = NoError THEN issued \cup {id} ELSE issued
            /\ clock' = IF out.err = NoError THEN clock + 1 ELSE clock
            /\ last' = Record("Create", id, <<name>>, <<brand>>, << >>, devices, out)
            /\ UNCHANGED <<probe, pending>>

Create == CreateOf(NameInputs, BrandInputs)

Get ==
    /\ last = Idle
    /\ \E id \in Ids, fault \in {"none", "read"} :
        LET out == GetDevice(devices, id, fault)
        IN  /\ devices' = out.tbl
            /\ last' = Record("Get", id, << >>, << >>, << >>, devices, out)
            /\ UNCHANGED <<issued, clock, probe, pending>>

UpdateOf(names, brands, states, faults) ==
    /\ last = Idle
    /\ \E id \in Ids, name \in names, brand \in brands, state \in states, fault \in faults :
        LET out == UpdateDevice(devices, id, name, brand, state, fault)
        IN  /\ devices' = out.tbl
            /\ last' = Record("Update", id, <<name>>, <<brand>>, <<state>>, devices, out)
            /\ UNCHANGED <<issued, clock, probe, pending>>

Update == UpdateOf(NameInputs, BrandInputs, StateInputs, Faults)

PartialUpdateOf(names, brands, states, faults) ==
    /\ last = Idle
    /\ \E id \in Ids, name \in names, brand \in brands, state \in states, fault \in faults :
        LET out == PartialUpdateDevice(devices, id, name, brand, state, fault)
        IN  /\ devices' = out.tbl
            /\ last' = Record("PartialUpdate", id, name, brand, state, devices, out)
            /\ UNCHANGED <<issued, clock, probe, pending>>

PartialUpdate == PartialUpdateOf(Opt(NameInputs), Opt(BrandInputs), Opt(StateInputs), Faults)

Delete ==
    /\ last = Idle
    /\ \E id \in Ids, fault \in Faults :
        LET out == DeleteDevice(devices, id, fault)
        IN  /\ devices' = out.tbl
            /\ last' = Record("Delete", id, << >>, << >>, << >>, devices, out)
            /\ UNCHANGED <<issued, clock, probe, pending>>

\* the client takes the response; it may then make its next call
Respond ==
    /\ last # Idle
    /\ last' = Idle
    /\ UNCHANGED <<devices, issued, clock, probe, pending>>

Next == Create \/ Get \/ Update \/ PartialUpdate \/ Delete \/ Respond

Spec == Init /\ [][Next]_vars

TypeOK ==
    /\ issued \subseteq Ids
    /\ \A r \in devices : r.ID \in issued
    /\ last.op \in {"idle", "Create", "Get", "Update", "PartialUpdate", "Delete",
                    "List", "ListByBrand", "ListByState", "RepoCreate"}

----------------------------------------------------------------------------
(* Device.Validate applied to arbitrary Device values: the fields are      *)
(* drawn at and around every bound the checks test.                        *)

ProbeIds == {NilUUID, 1}

ProbeNames ==
    { << >>,
      <<" ", "\t">>,
      <<"a", "b">>,
      <<" ", "a", "b", " ">>,
      <<"a", "b", "c">>,
      <<"\t", "a", " ", "c", " ">>,
      Rep("a", MaxNameLen),
      Rep("a", MaxNameLen) \o <<" ">>,
      <<" ">> \o Rep("a", MaxNameLen),
      Rep("a", MaxNameLen + 1) }

ProbeBrands ==
    { << >>,
      <<" ">>,
      <<"b">>,
      <<" ", "b", " ">>,
      <<"b", "c">>,
      Rep("b", MaxBrandLen),
      <<" ">> \o Rep("b", MaxBrandLen),
      Rep("b", MaxBrandLen + 1) }

ProbeTimes == {ZeroTime, TicksPerMicro}

ProbeStates == {DeviceStateActive, DeviceStateInUse, DeviceStateInactive, "", "ACTIVE"}

InitValidate ==
    /\ devices = {}
    /\ issued = {}
    /\ clock = TicksPerMicro
    /\ last = Idle
    /\ pending = NoPending
    /\ \E id \in ProbeIds, name \in ProbeNames, brand \in ProbeBrands,
          t \in ProbeTimes, state \in ProbeStates :
            probe = [device |-> Device(id, name, brand, t, state),
                     err |-> NoError, done |-> FALSE]

RunValidate ==
    /\ ~probe.done
    /\ probe' = [probe EXCEPT !.err = Validate(probe.device), !.done = TRUE]
    /\ UNCHANGED <<devices, issued, clock, last, pending>>

NextValidate == RunValidate

SpecValidate == InitValidate /\ [][NextValidate]_vars

----------------------------------------------------------------------------
(* CreateDevice called with names and brands at and around the length     *)
(* bounds of the validation and of the table's columns.                    *)

CreateAtBounds == CreateOf(ProbeNames, ProbeBrands)

NextCreate == CreateAtBounds \/ Respond

SpecCreate == Init /\ [][NextCreate]_vars

----------------------------------------------------------------------------
(* The list operations, called on stores of devices of two brands and      *)
(* two states, created in the same microsecond or in different ones.   *)

ListNames == { <<"a", "b", "c">> }

ListBrands == { <<"a", "b">>, <<"a", "b", " ">> }

LimitInputs == {-1, 0, 1, 2}

OffsetInputs == {-1, 0, 1, 2}

BrandFilters == { << >>, <<"a", "b">>, <<"a", "b", " ">> }

StateFilters == {DeviceStateActive, DeviceStateInUse, "bogus"}

\* the clock is followed over two microseconds
MaxClock == 2 * TicksPerMicro + 1

ListRecord(op, brand, state, limit, offset, tbl, out) ==
    [op |-> op, brand |-> brand, state |-> state, limit |-> limit, offset |-> offset,
     pre |-> tbl, err |-> out.err, items |-> out.devices, query |-> out.query,
     storeOk |-> out.storeOk]

CreateListed == CreateOf(ListNames, ListBrands)

\* a device is taken into use
TakeIntoUse == PartialUpdateOf({<< >>}, {<< >>}, {<<DeviceStateInUse>>}, {"none"})

\* time passes between two calls
Tick ==
    /\ last = Idle
    /\ clock < MaxClock
    /\ clock' = clock + 1
    /\ UNCHANGED <<devices, issued, last, probe, pending>>

\* a client asks for a page, or for the next one after the page it was given
List ==
    /\ last = Idle \/ last.op = "List"
    /\ \E limit \in LimitInputs, offset \in OffsetInputs, scan \in Scans(devices),
          fault \in {"none", "read"} :
        LET out == ListDevices(scan, limit, offset, fault)
        IN  /\ last' = ListRecord("List", << >>, << >>, limit, offset, devices, out)
            /\ UNCHANGED <<devices, issued, clock, probe, pending>>

ListByBrand ==
    /\ last = Idle
    /\ \E brand \in BrandFilters, limit \in LimitInputs, offset \in OffsetInputs,
          scan \in Scans(devices), fault \in {"none", "read"} :
        LET out == ListDevicesByBrand(scan, brand, limit, offset, fault)
        IN  /\ last' = ListRecord("ListByBrand", <<brand>>, << >>, limit, offset, devices, out)
            /\ UNCHANGED <<devices, issued, clock, probe, pending>>

ListByState ==
    /\ last = Idle
    /\ \E state \in StateFilters, limit \in LimitInputs, offset \in OffsetInputs,
          scan \in Scans(devices), fault \in {"none", "read"} :
        LET out == ListDevicesByState(scan, state, limit, offset, fault)
        IN  /\ last' = ListRecord("ListByState", << >>, <<state>>, limit, offset, devices, out)
            /\ UNCHANGED <<devices, issued, clock, probe, pending>>

NextList ==
    CreateListed \/ TakeIntoUse \/ Tick \/ List \/ ListByBrand \/ ListByState \/ Respond

SpecList == Init /\ [][NextList]_vars

----------------------------------------------------------------------------
(* Create followed by Get of the device it returned, with names and brands *)
(* at and around the length bounds.                                        *)

GetCreated ==
    /\ last.op = "Create"
    /\ last.err = NoError
    /\ \E fault \in {"none", "read"} :
        LET id == last.ret[1].ID
            out == GetDevice(devices, id, fault)
        IN  /\ devices' = out.tbl
            /\ last' = Record("Get", id, << >>, << >>, << >>, devices, out)
            /\ UNCHANGED <<issued, clock, probe, pending>>

NextRoundTrip == CreateAtBounds \/ GetCreated \/ Respond

SpecRoundTrip == Init /\ [][NextRoundTrip]_vars

----------------------------------------------------------------------------
(* The repository called directly with a device whose identifier is the    *)
(* caller's choice: NewDevice, then the ID field overwritten, then Create. *)

StoreCreate ==
    /\ last = Idle
    /\ \E id \in Ids, name \in NameInputs, brand \in BrandInputs, fault \in BOOLEAN :
        LET new == NewDevice(id, clock, name, brand)
            res == RepoCreate(devices, new.device[1], fault)
        IN  /\ new.err = NoError
            /\ devices' = res.tbl
            /\ issued' = IF res.err = NoError THEN issued \cup {id} ELSE issued
            /\ clock' = IF res.err = NoError THEN clock + 1 ELSE clock
            /\ last' = Record("RepoCreate", id, <<name>>, <<brand>>, << >>, devices,
                              Outcome(new.device, res.err, res.tbl, <<"Create">>, ~fault))
            /\ UNCHANGED <<probe, pending>>

NextStore == StoreCreate \/ Respond

SpecStore == Init /\ [][NextStore]_vars

----------------------------------------------------------------------------
(* Create, Update, Delete and List against a store that may fail any call. *)

UpdateListed ==
    UpdateOf(ListNames, ListBrands, {DeviceStateActive, DeviceStateInactive}, Faults)

NextFaults == CreateListed \/ UpdateListed \/ Delete \/ List \/ Respond

SpecFaults == Init /\ [][NextFaults]_vars

----------------------------------------------------------------------------
(* Device.Update and Device.SetState called on a device, each once.        *)
(* probe.device is the receiver before the call and probe.after the        *)
(* receiver after it.                                                      *)

\* the receivers: devices as NewDevice makes them and the store returns them
Receivers ==
    { Device(id, name, brand, t, state) :
        id \in Ids, name \in {<<"a", "b", "c">>, <<" ", "a", "b", "c", "d">>},
        brand \in {<<"a", "b">>, <<"x", "y", "z", " ">>},
        t \in {TicksPerMicro, TicksPerMicro + 1},
        state \in {DeviceStateActive, DeviceStateInUse, DeviceStateInactive} }

InitMutate ==
    /\ devices = {}
    /\ issued = {}
    /\ clock = TicksPerMicro
    /\ last = Idle
    /\ pending = NoPending
    /\ \E d \in Receivers :
        probe = [device |-> d, err |-> NoError, done |-> FALSE, op |-> "",
                 name |-> << >>, brand |-> << >>, state |-> << >>, after |-> d]

RunUpdate ==
    /\ ~probe.done
    /\ \E name \in NameInputs, brand \in BrandInputs, state \in StateInputs :
        LET upd == DeviceUpdate(probe.device, name, brand, state)
        IN  probe' = [probe EXCEPT !.op = "Update", !.name = <<name>>, !.brand = <<brand>>,
                                   !.state = <<state>>, !.after = upd.device,
                                   !.err = upd.err, !.done = TRUE]
    /\ UNCHANGED <<devices, issued, clock, last, pending>>

RunSetState ==
    /\ ~probe.done
    /\ \E state \in StateInputs :
        LET set == SetState(probe.device, state)
        IN  probe' = [probe EXCEPT !.op = "SetState", !.state = <<state>>,
                                   !.after = set.device, !.err = set.err, !.done = TRUE]
    /\ UNCHANGED <<devices, issued, clock, last, pending>>

NextMutate == RunUpdate \/ RunSetState

SpecMutate == InitMutate /\ [][NextMutate]_vars

----------------------------------------------------------------------------
(* GET /devices with the query parameters limit, offset, brand and state.  *)

\* absent, not a number, negative, zero, positive, of two digits, and a
\* number followed by something else
QueryInts ==
    { << >>, <<"a">>, <<"-", "1">>, <<"0">>, <<"1">>, <<"2">>, <<"1", "2">>, <<"2", "x">> }

BrandQueries == {<< >>, <<"a", "b">>}

StateQueries == {"", DeviceStateActive, "bogus"}

HttpListDevices ==
    /\ last = Idle
    /\ \E l \in QueryInts, o \in QueryInts, brand \in BrandQueries, stateStr \in StateQueries,
          scan \in Scans(devices), fault \in {"none", "read"} :
        LET h == HandlerListDevices(scan, l, o, brand, stateStr, fault)
        IN  /\ last' = [op |-> "HttpList", limit |-> l, offset |-> o, brand |-> brand,
                        state |-> stateStr, pre |-> devices, err |-> h.out.err,
                        items |-> h.out.devices, query |-> h.out.query,
                        storeOk |-> h.out.storeOk, resp |-> h.resp]
            /\ UNCHANGED <<devices, issued, clock, probe, pending>>

NextHttpList == CreateListed \/ HttpListDevices \/ Respond

SpecHttpList == Init /\ [][NextHttpList]_vars

----------------------------------------------------------------------------
(* Two clients calling Update, PartialUpdate and Delete on one device at   *)
(* the same time.  A call is two steps, for the service holds no lock and  *)
(* opens no transaction: the load (GetByID) with the guard and the         *)
(* validation, which touch only the loaded copy, and the write (Update or  *)
(* Delete of the repository).  pending[c] keeps, of the call of client c,  *)
(* the arguments, the copy it loaded (snap), the device it is about to     *)
(* write (cand), the row as it was when the write was applied (row) and    *)
(* the outcome, until the client takes the response.                       *)

\* the name, brand and state of the full updates
RaceUpdates ==
    { <<(<<"a", "b", "c">>), (<<"a", "b">>), DeviceStateInactive>>,
      <<(<<"x", "y", "z">>), (<<"x", "y">>), DeviceStateInUse>> }

\* the optional name, brand and state of the partial updates
RacePartialUpdates ==
    { <<(<< <<"x", "y", "z">> >>), (<< >>), (<< >>)>>,
      <<(<< >>), (<< >>), (<<DeviceStateInUse>>)>> }

Called(op, id, name, brand, state) ==
    [Free EXCEPT !.op = op, !.id = id, !.name = name, !.brand = brand, !.state = state]

\* the call ends before any write
Failed(call, snap, err) ==
    [call EXCEPT !.pc = "done", !.snap = snap, !.err = err]

\* the call has loaded snap and goes on to write cand
Loaded(call, snap, cand) ==
    [call EXCEPT !.pc = "write", !.snap = snap, !.cand = cand]

\* the call ends with its write: res is the outcome of the repository
Written(call, res, context) ==
    [call EXCEPT !.pc = "done",
                 !.row = RowPtr(devices, call.id),
                 !.err = IF res.err # NoError THEN Wrapf(context, res.err) ELSE NoError,
                 !.ret = IF res.err # NoError THEN << >> ELSE call.cand,
                 !.applied = res.err = NoError]

\* the one device the clients work on
RaceCreate ==
    /\ issued = {}
    /\ CreateOf(ListNames, ListBrands)

LoadUpdate(c) ==
    /\ pending[c].pc = "free"
    /\ \E id \in issued, u \in RaceUpdates :
        LET call == Called("Update", id, <<u[1]>>, <<u[2]>>, <<u[3]>>)
            got == RepoGetByID(devices, id, FALSE)
            upd == DeviceUpdate(got.device[1], u[1], u[2], u[3])
        IN  pending' = [pending EXCEPT ![c] =
                IF got.err # NoError THEN Failed(call, << >>, got.err)
                ELSE IF upd.err # NoError THEN Failed(call, got.device, upd.err)
                ELSE Loaded(call, got.device, <<upd.device>>)]
    /\ UNCHANGED <<devices, issued, clock, last, probe>>

LoadPartialUpdate(c) ==
    /\ pending[c].pc = "free"
    /\ \E id \in issued, u \in RacePartialUpdates :
        LET call == Called("PartialUpdate", id, u[1], u[2], u[3])
            got == RepoGetByID(devices, id, FALSE)
            guard == CanUpdate(got.device[1])
            merged == Merge(got.device[1], u[1], u[2], u[3])
            verr == Validate(merged)
        IN  pending' = [pending EXCEPT ![c] =
                IF got.err # NoError THEN Failed(call, << >>, got.err)
                ELSE IF guard # NoError THEN Failed(call, got.device, guard)
                ELSE IF verr # NoError THEN Failed(call, got.device, verr)
                ELSE Loaded(call, got.device, <<merged>>)]
    /\ UNCHANGED <<devices, issued, clock, last, probe>>

LoadDelete(c) ==
    /\ pending[c].pc = "free"
    /\ \E id \in issued :
        LET call == Called("Delete", id, << >>, << >>, << >>)
            got == RepoGetByID(devices, id, FALSE)
            guard == CanDelete(got.device[1])
        IN  pending' = [pending EXCEPT ![c] =
                IF got.err # NoError THEN Failed(call, << >>, got.err)
                ELSE IF guard # NoError THEN Failed(call, got.device, guard)
                ELSE Loaded(call, got.device, << >>)]
    /\ UNCHANGED <<devices, issued, clock, last, probe>>

WriteUpdate(c) ==
    /\ pending[c].pc = "write"
    /\ pending[c].op \in {"Update", "PartialUpdate"}
    /\ LET res == RepoUpdate(devices, pending[c].cand[1], FALSE)
       IN  /\ devices' = res.tbl
           /\ pending' = [pending EXCEPT ![c] = Written(@, res, "failed to update device")]
    /\ UNCHANGED <<issued, clock, last, probe>>

WriteDelete(c) ==
    /\ pending[c].pc = "write"
    /\ pending[c].op = "Delete"
    /\ LET res == RepoDelete(devices, pending[c].id, FALSE)
       IN  /\ devices' = res.tbl
           /\ pending' = [pending EXCEPT ![c] = Written(@, res, "failed to delete device")]
    /\ UNCHANGED <<issued, clock, last, probe>>

\* the client takes the response
Collect(c) ==
    /\ pending[c].pc = "done"
    /\ pending' = [pending EXCEPT ![c] = Free]
    /\ UNCHANGED <<devices, issued, clock, last, probe>>

NextRace ==
    \/ RaceCreate
    \/ Respond
    \/ \E c \in Clients :
        \/ LoadUpdate(c) \/ LoadPartialUpdate(c) \/ LoadDelete(c)
        \/ WriteUpdate(c) \/ WriteDelete(c)
        \/ Collect(c)

SpecRace == Init /\ [][NextRace]_vars

----------------------------------------------------------------------------
(* Properties *)

\* the row of the call's id before and after the call, as pointers
Before == RowPtr(last.pre, last.id)

After == RowPtr(devices, last.id)

\* the call made no persistence write
NoWrite == \A i \in 1..Len(last.calls) : last.calls[i] \notin {"Create", "Update", "Delete"}

\* s, trimmed, has between lo and hi characters
InBounds(s, lo, hi) == LET n == Len(TrimSpace(s)) IN n >= lo /\ n <= hi

NameOk(s) == InBounds(s, MinNameLen, MaxNameLen)

BrandOk(s) == InBounds(s, MinBrandLen, MaxBrandLen)

StateOk(st) == st \in {"active", "in-use", "inactive"}

\* C1: Update and Delete of a device whose stored state is in-use fail with
\* BusinessRuleViolation whatever is requested (the store having answered
\* the load), make no persistence write and leave the store as it was.
C1_InUseBlocksUpdateAndDelete ==
    (/\ last.op \in {"Update", "Delete"}
     /\ Before # << >>
     /\ Before[1].State = DeviceStateInUse
     /\ last.storeOk)
    => /\ IsBusinessRuleError(last.err)
       /\ last.ret = << >>
       /\ NoWrite
       /\ After = Before
       /\ devices = last.pre

C1_Witness ==
    /\ last.op = "Update"
    /\ Before # << >>
    /\ Before[1].State = DeviceStateInUse
    /\ last.state = <<DeviceStateInactive>>
    /\ last.name[1] # Before[1].Name
    /\ last.storeOk
    /\ IsBusinessRuleError(last.err)

C3_StateChangeAlwaysAllowed ==
    (/\ last.op = "PartialUpdate"
     /\ last.name = << >>
     /\ last.brand = << >>
     /\ last.state # << >>
     /\ StateOk(last.state[1])
     /\ Before # << >>
     /\ last.storeOk)
    => /\ last.err = NoError
       /\ After # << >>
       /\ After[1].State = last.state[1]

\* C4: no Update or PartialUpdate of a device whose stored state is in-use
\* changes the stored name or brand.
C4_InUseKeepsNameAndBrand ==
    (/\ last.op \in {"Update", "PartialUpdate"}
     /\ Before # << >>
     /\ Before[1].State = DeviceStateInUse)
    => /\ After # << >>
       /\ After[1].Name = Before[1].Name
       /\ After[1].Brand = Before[1].Brand

C4_Witness ==
    /\ last.op = "Update"
    /\ Before # << >>
    /\ Before[1].State = DeviceStateInUse
    /\ NameOk(last.name[1]) /\ last.name[1] # Before[1].Name
    /\ BrandOk(last.brand[1]) /\ last.brand[1] # Before[1].Brand
    /\ StateOk(last.state[1])
    /\ last.storeOk
    /\ After = Before

\* C5: every stored device has a non-nil id, a name of 3..100 and a brand of
\* 2..50 characters after trimming, one of the three states and a non-zero
\* created_at.
C5_StoredDevicesAreValid ==
    \A r \in devices :
        /\ r.ID # NilUUID
        /\ Len(TrimSpace(r.Name)) \in 3..100
        /\ Len(TrimSpace(r.Brand)) \in 2..50
        /\ r.State \in {"active", "in-use", "inactive"}
        /\ r.CreatedAt # ZeroTime

C5_Witness ==
    /\ Cardinality(devices) = 2
    /\ last.op = "Update"
    /\ last.err = NoError
    /\ After # << >>
    /\ After[1].Name # TrimSpace(After[1].Name)
    /\ After[1].State = DeviceStateInUse

\* C6: Create with a name and a brand within the length bounds, the store
\* accepting the write, succeeds, adds exactly one row, and returns the
\* device with that name and brand, state active, a non-nil id and a
\* non-zero created_at.
C6_CreateValidSucceeds ==
    (/\ last.op = "Create"
     /\ NameOk(last.name[1])
     /\ BrandOk(last.brand[1])
     /\ last.storeOk)
    => /\ last.err = NoError
       /\ last.ret # << >>
       /\ last.ret[1].Name = last.name[1]
       /\ last.ret[1].Brand = last.brand[1]
       /\ last.ret[1].State = "active"
       /\ last.ret[1].ID # NilUUID
       /\ last.ret[1].CreatedAt # ZeroTime
       /\ last.calls = <<"Create">>
       /\ last.pre \subseteq devices
       /\ Cardinality(devices \ last.pre) = 1
       /\ \A r \in devices \ last.pre : r.ID = last.ret[1].ID

C6_Witness ==
    /\ last.op = "Create"
    /\ last.err = NoError
    /\ last.pre # {}
    /\ Len(last.ret[1].Name) = MaxNameLen
    /\ Len(last.ret[1].Brand) = MaxBrandLen
    /\ Cardinality(devices) = Cardinality(last.pre) + 1

\* the fields of d that break a rule, by their place in the order
\* id, name, brand, created_at, state
FieldOrder == <<"id", "name", "brand", "created_at", "state">>

InvalidFields(d) ==
    {i \in 1..5 :
        \/ i = 1 /\ d.ID = NilUUID
        \/ i = 2 /\ ~NameOk(d.Name)
        \/ i = 3 /\ ~BrandOk(d.Brand)
        \/ i = 4 /\ d.CreatedAt = ZeroTime
        \/ i = 5 /\ ~StateOk(d.State)}

\* C7: Validate returns ok exactly when no field is invalid, and otherwise
\* one ValidationError naming the earliest invalid field in the order
\* id, name, brand, created_at, state.
C7_ValidateReportsFirstInvalidField ==
    probe.done /\ probe # NoProbe
    => LET bad == InvalidFields(probe.device)
       IN  /\ (bad = {}) <=> (probe.err = NoError)
           /\ bad # {}
              => /\ Len(probe.err) = 1
                 /\ probe.err[1].type = "ValidationError"
                 /\ \E i \in bad : /\ \A j \in bad : i <= j
                                   /\ probe.err[1].field = FieldOrder[i]

C7_Witness ==
    /\ probe.done /\ probe # NoProbe
    /\ InvalidFields(probe.device) = {4, 5}
    /\ ValidationField(probe.err) = "created_at"

\* the value an Update or PartialUpdate validates: the stored row with the
\* provided fields in place
Candidate ==
    [Before[1] EXCEPT !.Name = IF last.name # << >> THEN last.name[1] ELSE @,
                      !.Brand = IF last.brand # << >> THEN last.brand[1] ELSE @,
                      !.State = IF last.state # << >> THEN last.state[1] ELSE @]

\* the call reached its validation step and the value it validates is invalid
ValidationFails ==
    \/ /\ last.op = "Create"
       /\ ~(NameOk(last.name[1]) /\ BrandOk(last.brand[1]))
    \/ /\ last.op \in {"Update", "PartialUpdate"}
       /\ Before # << >>
       /\ last.calls # << >> /\ last.storeOk
       /\ Before[1].State # DeviceStateInUse
       /\ ~(NameOk(Candidate.Name) /\ BrandOk(Candidate.Brand) /\ StateOk(Candidate.State))

\* C8: when validation fails in Create, Update or PartialUpdate, no
\* persistence write is made, the store is unchanged, no device is
\* returned, and the error is a ValidationFailure, wrapped or not.
C8_ValidationFailureWritesNothing ==
    ValidationFails
    => /\ NoWrite
       /\ devices = last.pre
       /\ last.ret = << >>
       /\ IsValidationError(last.err)

C8_Witness ==
    /\ last.op = "Create"
    /\ last.pre # {}
    /\ ValidationFails
    /\ Len(last.err) > 1
    /\ ValidationField(last.err) = "brand"

\* C9: the guard looks at the stored state only: Update or PartialUpdate
\* of a device that is active or inactive, with valid fields and any of the
\* three states requested (in-use included), succeeds when the store
\* accepts the write, and the stored state becomes the requested one.
C9_GuardIgnoresRequestedState ==
    (/\ last.op \in {"Update", "PartialUpdate"}
     /\ Before # << >>
     /\ Before[1].State \in {DeviceStateActive, DeviceStateInactive}
     /\ last.state # << >>
     /\ NameOk(Candidate.Name) /\ BrandOk(Candidate.Brand) /\ StateOk(Candidate.State)
     /\ last.storeOk)
    => /\ last.err = NoError
       /\ After # << >>
       /\ After[1].State = last.state[1]

C9_Witness ==
    /\ last.op = "Update"
    /\ Before # << >>
    /\ Before[1].State = DeviceStateInactive
    /\ last.state = <<DeviceStateInUse>>
    /\ last.err = NoError
    /\ After[1].State = DeviceStateInUse

\* C10: Get, Update, PartialUpdate and Delete of an id that has no row fail
\* with NotFound (the store having answered the load), make no persistence
\* write and leave the store unchanged.
C10_AbsentIdIsNotFound ==
    (/\ last.op \in {"Get", "Update", "PartialUpdate", "Delete"}
     /\ Before = << >>
     /\ last.storeOk)
    => /\ IsNotFoundError(last.err)
       /\ last.ret = << >>
       /\ NoWrite
       /\ devices = last.pre

C10_Witness ==
    /\ last.op = "Delete"
    /\ Before = << >>
    /\ last.pre # {}
    /\ last.storeOk
    /\ IsNotFoundError(last.err)

----------------------------------------------------------------------------
(* Properties of the list operations *)

IsListCall == last.op \in {"List", "ListByBrand", "ListByState"}

\* the filter of the list call passes the service's check
FilterOk ==
    /\ last.op = "ListByBrand" => last.brand[1] # << >>
    /\ last.op = "ListByState" => StateOk(last.state[1])

\* C11: List, ListByBrand and ListByState never reject a limit or an offset:
\* whatever the two integers, a call whose filter is valid puts exactly one
\* query to the store, with limit 10 in place of a limit <= 0 and offset 0 in
\* place of an offset < 0, and it fails only if the store fails.
C11_PaginationIsNormalised ==
    (IsListCall /\ FilterOk)
    => /\ last.query = << [fn |-> last.op,
                           limit |-> IF last.limit <= 0 THEN 10 ELSE last.limit,
                           offset |-> IF last.offset < 0 THEN 0 ELSE last.offset] >>
       /\ ~IsValidationError(last.err)
       /\ last.storeOk => last.err = NoError

C11_Witness ==
    /\ last.op = "ListByState"
    /\ last.limit < 0
    /\ last.offset < 0
    /\ last.err = NoError
    /\ Len(last.items) >= 2

\* C12: ListByBrand with an empty brand fails with a ValidationError on field
\* brand, ListByState with a state outside active, in-use, inactive fails
\* with a ValidationError on field state; neither puts a query to the store
\* nor returns a device.
C12_ListFiltersAreValidatedFirst ==
    (IsListCall /\ ~FilterOk)
    => /\ IsValidationError(last.err)
       /\ ValidationField(last.err) = (IF last.op = "ListByBrand" THEN "brand" ELSE "state")
       /\ last.query = << >>
       /\ last.items = << >>

C12_Witness ==
    /\ last.op = "ListByBrand"
    /\ last.brand = << << >> >>
    /\ last.limit > 0
    /\ devices # {}
    /\ IsValidationError(last.err)
    /\ last.query = << >>

\* items is the page (lim, off) of rows in created_at-descending order: it
\* holds rows only, none twice, newest first, as many as the window leaves,
\* and the i-th of them stands at position off + i of the order
IsPage(items, rows, lim, off) ==
    LET n == Cardinality(rows)
        left == IF n > off THEN n - off ELSE 0
    IN  /\ Len(items) = (IF lim < left THEN lim ELSE left)
        /\ \A i \in DOMAIN items : items[i] \in rows
        /\ \A i, j \in DOMAIN items :
            i < j => items[i] # items[j] /\ items[i].CreatedAt >= items[j].CreatedAt
        /\ \A i \in DOMAIN items :
            /\ Cardinality({r \in rows : r.CreatedAt > items[i].CreatedAt}) <= off + i - 1
            /\ Cardinality({r \in rows : r.CreatedAt >= items[i].CreatedAt}) >= off + i

\* the unfiltered List call answered by the store returned a page of it
ListedPage ==
    (last.op = "List" /\ last.storeOk)
    => /\ last.err = NoError
       /\ IsPage(last.items, last.pre, last.query[1].limit, last.query[1].offset)

\* the List call made in this step asks for the page that follows the page
\* of the List call before it, the store being the same
NextPageStep ==
    /\ last.op = "List" /\ last.err = NoError
    /\ last'.op = "List" /\ last'.err = NoError
    /\ last'.pre = last.pre
    /\ last'.query[1].limit = last.query[1].limit
    /\ last'.query[1].offset = last.query[1].offset + last.query[1].limit

\* C13: list(limit, offset) returns the devices at positions offset ..
\* offset+limit-1 of the stored devices in created_at-descending order: at
\* most limit of them, none when the store is empty or the offset is past
\* the end (and no error), and no device of a page is on the page after it.
C13_ListReturnsThePage ==
    [][/\ ListedPage'
       /\ NextPageStep
          => \A i \in DOMAIN last.items, j \in DOMAIN last'.items :
                last.items[i] # last'.items[j]]_vars

\* C14: ListByBrand and ListByState answered by the store return a page of
\* the stored devices whose brand, respectively state, equals the filter
\* exactly: only such devices, all of them that the window leaves, newest
\* first; when none matches the result is empty and there is no error.
C14_FilteredListsMatchExactly ==
    (last.op \in {"ListByBrand", "ListByState"} /\ FilterOk /\ last.storeOk)
    => /\ last.err = NoError
       /\ IsPage(last.items,
                 IF last.op = "ListByBrand"
                 THEN {r \in last.pre : r.Brand = last.brand[1]}
                 ELSE {r \in last.pre : r.State = last.state[1]},
                 last.query[1].limit, last.query[1].offset)

C14_Witness ==
    /\ last.op = "ListByBrand"
    /\ last.err = NoError
    /\ last.query[1].limit >= 2
    /\ last.query[1].offset = 0
    /\ Len(last.items) = 1
    /\ \E r \in last.pre : r.Brand # last.brand[1] /\ TrimSpace(r.Brand) = TrimSpace(last.brand[1])

----------------------------------------------------------------------------
(* Properties of the updates and of Delete *)

\* C15: a successful PartialUpdate changes no field that was not provided:
\* name, brand and state, where nil, keep their stored value, id and
\* created_at are the stored ones, in the row and in the returned device,
\* and the rows of the other devices are untouched.
C15_PartialUpdateKeepsUnprovidedFields ==
    (last.op = "PartialUpdate" /\ last.err = NoError)
    => /\ Before # << >> /\ After # << >> /\ last.ret # << >>
       /\ \A d \in {After[1], last.ret[1]} :
            /\ d.ID = Before[1].ID
            /\ d.CreatedAt = Before[1].CreatedAt
            /\ last.name = << >> => d.Name = Before[1].Name
            /\ last.brand = << >> => d.Brand = Before[1].Brand
            /\ last.state = << >> => d.State = Before[1].State
       /\ \A r \in last.pre : r.ID # last.id => r \in devices

C15_Witness ==
    /\ last.op = "PartialUpdate"
    /\ last.err = NoError
    /\ last.name # << >> /\ last.brand = << >> /\ last.state = << >>
    /\ Before[1].State = DeviceStateInactive
    /\ After[1].Name # Before[1].Name
    /\ After[1].State = DeviceStateInactive

\* C16: PartialUpdate with no field provided, on a stored device that is not
\* in-use, succeeds (the store having answered), returns the stored device
\* and leaves the store as it was; a further such call gives the same.
C16_EmptyPartialUpdateIsNoOp ==
    (/\ last.op = "PartialUpdate"
     /\ last.name = << >> /\ last.brand = << >> /\ last.state = << >>
     /\ Before # << >>
     /\ Before[1].State # DeviceStateInUse
     /\ last.storeOk)
    => /\ last.err = NoError
       /\ last.ret = Before
       /\ devices = last.pre
       /\ LET again == PartialUpdateDevice(devices, last.id, << >>, << >>, << >>, "none")
          IN  again.err = NoError /\ again.device = last.ret /\ again.tbl = devices

C16_Witness ==
    /\ last.op = "PartialUpdate"
    /\ last.name = << >> /\ last.brand = << >> /\ last.state = << >>
    /\ Before # << >>
    /\ Before[1].State = DeviceStateInactive
    /\ last.calls = <<"GetByID", "Update">>
    /\ last.err = NoError
    /\ Cardinality(devices) > 1

\* the identifier and the creation time of every row
Identities(tbl) == {<<r.ID, r.CreatedAt>> : r \in tbl}

\* C18: the id and the created_at of a stored device never change while it
\* is stored: no step changes the created_at of a row or drops a row other
\* than by Delete, and an Update or PartialUpdate step leaves the ids and
\* creation times of the table exactly as they were.
C18_IdAndCreatedAtNeverChange ==
    [][/\ \A r \in devices, r2 \in devices' : r2.ID = r.ID => r2.CreatedAt = r.CreatedAt
       /\ last'.op # "Delete" => Identities(devices) \subseteq Identities(devices')
       /\ last'.op \in {"Update", "PartialUpdate"} => Identities(devices') = Identities(devices)]_vars

C18_Witness ==
    /\ last.op = "Update"
    /\ last.err = NoError
    /\ After # Before
    /\ After[1].CreatedAt = Before[1].CreatedAt
    /\ Cardinality(devices) > 1

\* C20: a successful Delete(id) removes the row of id and nothing else:
\* exists_by_id(id) is then false, Get(id) and Delete(id) fail with NotFound,
\* and they go on failing so for an id whose device was deleted.
C20_DeleteRemovesExactlyThatDevice ==
    /\ (last.op = "Delete" /\ last.err = NoError)
       => /\ Before # << >>
          /\ devices = last.pre \ {Before[1]}
          /\ ~RepoExistsByID(devices, last.id)
          /\ IsNotFoundError(GetDevice(devices, last.id, "none").err)
          /\ IsNotFoundError(DeleteDevice(devices, last.id, "none").err)
    /\ (last.op \in {"Get", "Delete"} /\ last.id \in issued /\ Before = << >> /\ last.storeOk)
       => /\ IsNotFoundError(last.err)
          /\ devices = last.pre

C20_Witness ==
    /\ last.op = "Delete"
    /\ last.id \in issued
    /\ Before = << >>
    /\ IsNotFoundError(last.err)
    /\ devices # {}

----------------------------------------------------------------------------
(* Properties of what the store keeps of a device *)

\* Get follows the successful Create of the device it asks for, and the
\* store answers it
GetAfterCreate ==
    /\ last.op = "Create" /\ last.err = NoError
    /\ last'.op = "Get" /\ last'.id = last.ret[1].ID
    /\ last'.storeOk

\* s without what of it lies beyond n characters
Cut(s, n) == IF Len(s) <= n THEN s ELSE SubSeq(s, 1, n)

\* C17 as stated: Get of the id a successful Create returned succeeds and
\* returns a device equal in id, name, brand, state and created_at to the
\* device Create returned.
C17_GetReturnsWhatCreateReturned ==
    [][GetAfterCreate => last'.err = NoError /\ last'.ret = last.ret]_vars

\* C17: Get of the id a successful Create returned succeeds and returns a
\* device equal to the one Create returned in id and state; its created_at
\* is that of Create cut to the whole microsecond, and its name and brand
\* are those of Create cut to the 100 and 50 characters of their columns.
C17_GetReturnsWhatWasStored ==
    [][GetAfterCreate
       => /\ last'.err = NoError
          /\ last'.ret # << >>
          /\ last'.ret[1].ID = last.ret[1].ID
          /\ last'.ret[1].State = last.ret[1].State
          /\ last'.ret[1].Name = Cut(last.ret[1].Name, 100)
          /\ last'.ret[1].Brand = Cut(last.ret[1].Brand, 50)
          /\ last'.ret[1].CreatedAt % TicksPerMicro = 0
          /\ last.ret[1].CreatedAt - last'.ret[1].CreatedAt \in 0..(TicksPerMicro - 1)]_vars

\* Get has returned a device whose created_at lies before the clock reading
\* its Create took
C17_Witness ==
    /\ last.op = "Get"
    /\ last.err = NoError
    /\ last.ret[1].CreatedAt < clock - 1
    /\ Len(last.ret[1].Name) >= MinNameLen

\* C19: Create of a device whose id is that of a stored device fails with an
\* error for which IsAlreadyExistsError is true and leaves the store as it
\* was; no two stored devices have the same id.
C19_DuplicateIdIsAlreadyExists ==
    /\ \A r1, r2 \in devices : r1.ID = r2.ID => r1 = r2
    /\ (last.op = "RepoCreate" /\ Before # << >>)
       => /\ IsAlreadyExistsError(last.err)
          /\ devices = last.pre

----------------------------------------------------------------------------
(* Properties of the transport *)

\* the kinds the error classifies as
Kinds(err) ==
    {k \in {"NotFound", "AlreadyExists", "ValidationFailure", "BusinessRuleViolation"} :
        \/ k = "NotFound" /\ IsNotFoundError(err)
        \/ k = "AlreadyExists" /\ IsAlreadyExistsError(err)
        \/ k = "ValidationFailure" /\ IsValidationError(err)
        \/ k = "BusinessRuleViolation" /\ IsBusinessRuleError(err)}

\* C21: every outcome of Create, Get, Update, PartialUpdate and Delete has
\* one status code: 404 for NotFound, 400 with the name of the field for a
\* validation failure, 422 for a business rule violation, 500 for any other
\* error, 201 for a successful Create, 204 for a successful Delete and 200
\* for a successful Get, Update or PartialUpdate; no error is of two kinds.
C21_OutcomeHasOneStatus ==
    (last.op \in {"Create", "Get", "Update", "PartialUpdate", "Delete"})
    => /\ Cardinality(Kinds(last.err)) <= 1
       /\ last.resp.status =
            (IF last.err = NoError
             THEN (IF last.op = "Create" THEN 201 ELSE IF last.op = "Delete" THEN 204 ELSE 200)
             ELSE IF Kinds(last.err) = {"NotFound"} THEN 404
             ELSE IF Kinds(last.err) = {"ValidationFailure"} THEN 400
             ELSE IF Kinds(last.err) = {"BusinessRuleViolation"} THEN 422
             ELSE 500)
       /\ last.resp.status = 400
          => last.resp.field \in {"id", "name", "brand", "created_at", "state"}
       /\ (last.resp.status = 400 /\ last.op = "Update")
          => \/ last.resp.field = "name" /\ ~NameOk(last.name[1])
             \/ last.resp.field = "brand" /\ ~BrandOk(last.brand[1])
             \/ last.resp.field = "state" /\ ~StateOk(last.state[1])

C21_Witness ==
    /\ last.op = "Delete"
    /\ IsBusinessRuleError(last.err)
    /\ last.resp.status = 422
    /\ Cardinality(devices) > 1

\* C22: when the store fails a call of Create, Update, Delete or List with
\* an error of its own, the service returns an error of none of the four
\* kinds and no entity; the NotFound of the store is still a NotFound, and
\* of no other kind, when Update and Delete return it and when the service
\* wraps it.
C22_StoreFailureIsUnclassified ==
    /\ (last.op \in {"Create", "Update", "Delete", "List"} /\ ~last.storeOk)
       => /\ last.err # NoError
          /\ Kinds(last.err) = {}
          /\ IF last.op = "List" THEN last.items = << >> ELSE last.ret = << >>
    /\ (last.op \in {"Update", "Delete"} /\ last.storeOk /\ Before = << >>)
       => Kinds(last.err) = {"NotFound"}
    /\ Kinds(Wrapf("failed to update device", ErrDeviceNotFound)) = {"NotFound"}

C22_Witness ==
    /\ last.op = "Update"
    /\ ~last.storeOk
    /\ last.calls = <<"GetByID", "Update">>
    /\ Before # << >>
    /\ last.err # NoError
    /\ last.resp.status = 500

\* client c applies its write in this step
Writes(c) == pending[c].pc = "write" /\ pending'[c].pc = "done"

\* C23: two concurrent Updates of one device that is not in-use both pass the
\* guard against the copy each loaded; the write of an Update succeeds
\* whenever the row exists, whatever has been written since its load, and
\* leaves the row with the name, the brand and the state of that Update and
\* with the id and the creation time it had
C23_LastWriteWins ==
    [][\A c \in Clients :
        (Writes(c) /\ pending[c].op = "Update" /\ RowPtr(devices, pending[c].id) # << >>)
        => /\ pending'[c].applied
           /\ pending'[c].err = NoError
           /\ RowPtr(devices', pending[c].id) # << >>
           /\ LET r == RowPtr(devices', pending[c].id)[1]
                  b == RowPtr(devices, pending[c].id)[1]
              IN  /\ r.Name = pending[c].name[1]
                  /\ r.Brand = pending[c].brand[1]
                  /\ r.State = pending[c].state[1]
                  /\ r.ID = b.ID
                  /\ r.CreatedAt = b.CreatedAt]_vars

\* both Updates loaded the same copy and were applied, the second over the
\* row the first had written, and the row is the second's in every field
C23_Witness ==
    \E c, d \in Clients :
        /\ c # d
        /\ pending[c].pc = "done" /\ pending[d].pc = "done"
        /\ pending[c].op = "Update" /\ pending[d].op = "Update"
        /\ pending[c].id = pending[d].id
        /\ pending[c].applied /\ pending[d].applied
        /\ pending[c].snap = pending[d].snap
        /\ pending[c].snap[1].State # DeviceStateInUse
        /\ pending[c].name # pending[d].name
        /\ pending[c].brand # pending[d].brand
        /\ pending[c].state # pending[d].state
        /\ pending[d].row # pending[d].snap
        /\ pending[d].row[1].Name = pending[c].name[1]
        /\ RowPtr(devices, pending[d].id) # << >>
        /\ RowPtr(devices, pending[d].id)[1].Name = pending[d].name[1]
        /\ RowPtr(devices, pending[d].id)[1].Brand = pending[d].brand[1]
        /\ RowPtr(devices, pending[d].id)[1].State = pending[d].state[1]

\* C26: the write of an Update or PartialUpdate whose device was deleted
\* after the load fails with NotFound, returns no device and leaves the
\* device absent
C26_StaleWriterDoesNotResurrect ==
    [][\A c \in Clients :
        (Writes(c) /\ pending[c].op \in {"Update", "PartialUpdate"}
                   /\ RowPtr(devices, pending[c].id) = << >>)
        => /\ IsNotFoundError(pending'[c].err)
           /\ ~pending'[c].applied
           /\ pending'[c].ret = << >>
           /\ RowPtr(devices', pending[c].id) = << >>
           /\ devices' = devices]_vars

\* an update loaded the device, a Delete was applied, and the update's write
\* found no row
C26_Witness ==
    \E c, d \in Clients :
        /\ c # d
        /\ pending[c].pc = "done" /\ pending[c].op \in {"Update", "PartialUpdate"}
        /\ pending[c].snap # << >>
        /\ pending[c].row = << >>
        /\ IsNotFoundError(pending[c].err)
        /\ pending[d].pc = "done" /\ pending[d].op = "Delete" /\ pending[d].applied
        /\ pending[d].id = pending[c].id
        /\ RowPtr(devices, pending[c].id) = << >>

RequestValid ==
    NameOk(last.name[1]) /\ BrandOk(last.brand[1]) /\ StateOk(last.state[1])

\* C24: Update loads, guards, validates and persists in this order and stops
\* at the first failure (the store having answered the load): an absent id
\* gives NotFound whatever the arguments; a device that is in-use gives
\* BusinessRuleViolation even when the requested name, brand or state is
\* invalid; ValidationFailure is given only for a device that exists and is
\* not in-use; and the repository's Update is called only after all three
\* have passed.
C24_UpdateStopsAtFirstFailure ==
    (last.op = "Update" /\ last.storeOk)
    => /\ Before = << >>
          => (IsNotFoundError(last.err) /\ last.calls = <<"GetByID">>)
       /\ (Before # << >> /\ Before[1].State = DeviceStateInUse)
          => /\ IsBusinessRuleError(last.err)
             /\ ~IsValidationError(last.err)
             /\ last.calls = <<"GetByID">>
       /\ IsValidationError(last.err)
          => /\ Before # << >>
             /\ Before[1].State # DeviceStateInUse
             /\ ~RequestValid
             /\ last.calls = <<"GetByID">>
       /\ last.calls = <<"GetByID", "Update">>
          => /\ Before # << >>
             /\ Before[1].State # DeviceStateInUse
             /\ RequestValid

\* an Update of a device that is in-use, with a name too short and a state
\* that is none of the three, is refused by the guard
C24_Witness ==
    /\ last.op = "Update"
    /\ Before # << >>
    /\ Before[1].State = DeviceStateInUse
    /\ ~NameOk(last.name[1])
    /\ ~StateOk(last.state[1])
    /\ IsBusinessRuleError(last.err)
    /\ devices = last.pre

\* C25: a name or brand of whitespace only is rejected, the bounds [3,100]
\* and [2,50] are inclusive and apply to the trimmed value, and after a
\* successful Create the returned and the stored name and brand are the
\* inputs as given, untrimmed
C25_StoredIsTheOriginalInput ==
    last.op = "Create"
    => /\ (TrimSpace(last.name[1]) = << >> \/ TrimSpace(last.brand[1]) = << >>)
          => IsValidationError(last.err)
       /\ IsValidationError(last.err)
          <=> ~(/\ Len(TrimSpace(last.name[1])) \in MinNameLen..MaxNameLen
                /\ Len(TrimSpace(last.brand[1])) \in MinBrandLen..MaxBrandLen)
       /\ last.err = NoError
          => /\ last.ret[1].Name = last.name[1]
             /\ last.ret[1].Brand = last.brand[1]
             /\ After # << >>
             /\ After[1].Name = last.name[1]
             /\ After[1].Brand = last.brand[1]

\* C28: no stored name or brand is longer than its column, and a name and
\* brand that pass the validation are no longer than the columns, so that
\* their Create succeeds when the driver does not fail
C28_ValidatedCanBePersisted ==
    /\ \A r \in devices : Len(r.Name) <= NameColumnLen /\ Len(r.Brand) <= BrandColumnLen
    /\ (last.op = "Create" /\ NameOk(last.name[1]) /\ BrandOk(last.brand[1]))
       => /\ Len(last.name[1]) <= NameColumnLen
          /\ Len(last.brand[1]) <= BrandColumnLen
          /\ CreateDevice(last.pre, last.id, clock, last.name[1], last.brand[1], "none").err
                = NoError

\* C29: the limit and the offset in the response to GET /devices are those
\* of the query the repository was given, whatever the limit and offset
\* parameters of the request
C29_EchoIsTheQueryUsed ==
    (last.op = "HttpList" /\ last.resp.status = StatusOK)
    => /\ last.query # << >>
       /\ last.resp.limit = last.query[1].limit
       /\ last.resp.offset = last.query[1].offset

\* C30: a mutator of the device that returns an error leaves the device as
\* it was: Device.Update that fails its guard or its validation changes
\* nothing, and Device.SetState with a state that is none of the three
\* returns ValidationFailure and leaves the state as it was
C30_FailedMutatorChangesNothing ==
    probe.done
    => /\ probe.err # NoError => probe.after = probe.device
       /\ (probe.op = "SetState" /\ ~StateOk(probe.state[1]))
          => /\ IsValidationError(probe.err)
             /\ probe.after.State = probe.device.State

====
